---- MODULE Spec2Model ----
(***************************************************************************)
(* Model of the cost scanner's analysis pipeline (src/app.py): vendor      *)
(* normalisation, rule-based categorisation, frequency estimation, the     *)
(* per-(vendor, year) aggregation, the alarm detector, the savings         *)
(* estimator and the report run with its guards and exports.               *)
(*                                                                         *)
(* Representation.  A Python str is a sequence of one-character strings,   *)
(* so that strip / lower / substring search are computed, not assumed.     *)
(* Money is an integer number of cents; a percentage that the code holds   *)
(* as a float is kept exact as a fraction [num, den].  A calendar date is  *)
(* a day number counted from 2023-01-01 (day 0).                           *)
(***************************************************************************)
EXTENDS Integers, Sequences, FiniteSets, TLC

VARIABLES
    pc,           \* position of the report run in the script
    cfg,          \* the sidebar inputs: year_min, year_max, TH, MIN
    df,           \* the parsed CSV: columns and raw rows
    col_map,      \* role -> column, the result of auto_map_columns
    d,            \* the normalised, filtered frame with its year dtype
    vendor_year,  \* groupby (vendor_norm, year): sum_net and count
    years,        \* the sorted integer year columns of the pivot
    recurring,    \* vendor_norm -> profile (total, years_nonzero, ...)
    alarms,       \* the alarm records, in the order of alarms_df
    savings,      \* the savings rows and the three totals
    ui,           \* what the page has rendered so far
    excel,        \* the sheets written to the spreadsheet export
    pdf,          \* the key/value rows of the PDF summary
    fn,           \* helper under test: its name
    args,         \* helper under test: its arguments
    ret           \* helper under test: its result

vars == <<pc, cfg, df, col_map, d, vendor_year, years, recurring, alarms,
          savings, ui, excel, pdf, fn, args, ret>>

pipeVars == <<pc, cfg, df, col_map, d, vendor_year, years, recurring, alarms,
              savings, ui, excel, pdf>>

fnVars == <<fn, args, ret>>

-----------------------------------------------------------------------------
(* Strings *)

\* A value that is not a str (None, NaN): isinstance(v, str) is false for it.
None == <<"None">>

EmptyStr == <<>>

UpperLetters == <<"A","B","C","D","E","F","G","H","I","J","K","L","M",
                  "N","O","P","Q","R","S","T","U","V","W","X","Y","Z">>

LowerLetters == <<"a","b","c","d","e","f","g","h","i","j","k","l","m",
                  "n","o","p","q","r","s","t","u","v","w","x","y","z">>

Digits == {"0","1","2","3","4","5","6","7","8","9"}

\* The characters \s matches and str.strip() removes.
Whitespace == {" ", "\t"}

Range(s) == {s[i] : i \in 1..Len(s)}

\* str.lower() on one character.
LowerChar(c) ==
    IF \E i \in 1..26 : UpperLetters[i] = c
    THEN LowerLetters[CHOOSE i \in 1..26 : UpperLetters[i] = c]
    ELSE c

\* str.lower()
Lower(s) == [i \in 1..Len(s) |-> LowerChar(s[i])]

RECURSIVE LStrip(_)
LStrip(s) ==
    IF s # <<>> /\ Head(s) \in Whitespace THEN LStrip(Tail(s)) ELSE s

RECURSIVE RStrip(_)
RStrip(s) ==
    IF s # <<>> /\ s[Len(s)] \in Whitespace
    THEN RStrip(SubSeq(s, 1, Len(s) - 1))
    ELSE s

\* str.strip()
Strip(s) == RStrip(LStrip(s))

\* k in s (substring test)
Contains(s, k) ==
    \E i \in 1..(Len(s) - Len(k) + 1) : SubSeq(s, i, i + Len(k) - 1) = k

\* s.startswith(k)
StartsWith(s, k) == Len(s) >= Len(k) /\ SubSeq(s, 1, Len(k)) = k

s_und == <<" ","u","n","d"," ">>

\* Every sequence over S of length at most n.
RECURSIVE StringsUpTo(_, _)
StringsUpTo(S, n) ==
    IF n = 0 THEN {<<>>}
    ELSE LET shorter == StringsUpTo(S, n - 1)
         IN  shorter \cup {Append(s, c) : s \in shorter, c \in S}

-----------------------------------------------------------------------------
(* Normalizer: norm_vendor *)

\* re.sub(r"\s+", " ", v): every maximal run of whitespace becomes one space.
RECURSIVE CollapseWs(_)
CollapseWs(s) ==
    IF s = <<>> THEN <<>>
    ELSE IF Head(s) \in Whitespace
         THEN <<" ">> \o CollapseWs(LStrip(s))
         ELSE <<Head(s)>> \o CollapseWs(Tail(s))

\* v.replace("&", " und ")
RECURSIVE ReplaceAmp(_)
ReplaceAmp(s) ==
    IF s = <<>> THEN <<>>
    ELSE IF Head(s) = "&"
         THEN s_und \o ReplaceAmp(Tail(s))
         ELSE <<Head(s)>> \o ReplaceAmp(Tail(s))

\* The characters the last re.sub keeps.  The accented letters of the class
\* are outside the ASCII alphabet the model draws vendor names from.
AllowedChars == Range(LowerLetters) \cup Digits \cup {" ", "-", "."}

\* re.sub(r"[^a-z0-9... \-\.]", "", v)
KeepAllowed(s) == SelectSeq(s, LAMBDA c : c \in AllowedChars)

norm_vendor(v) ==
    IF v = None THEN EmptyStr
    ELSE Strip(KeepAllowed(ReplaceAmp(CollapseWs(Lower(Strip(v))))))

-----------------------------------------------------------------------------
(* Categorizer: categorize *)

s_arval == <<"a","r","v","a","l">>
s_lease == <<"l","e","a","s","e">>
s_leasing == <<"l","e","a","s","i","n","g">>
s_meta == <<"m","e","t","a">>
s_facebook == <<"f","a","c","e","b","o","o","k">>
s_ads == <<"a","d","s">>
s_hera == <<"h","e","r","a">>
s_alperia == <<"a","l","p","e","r","i","a">>
s_energie == <<"e","n","e","r","g","i","e">>
s_strom == <<"s","t","r","o","m">>
s_gas == <<"g","a","s">>
s_aruba == <<"a","r","u","b","a">>
s_register == <<"r","e","g","i","s","t","e","r">>
s_apple == <<"a","p","p","l","e">>
s_microsoft == <<"m","i","c","r","o","s","o","f","t">>
s_google == <<"g","o","o","g","l","e">>
s_adobe == <<"a","d","o","b","e">>
s_gemeinde == <<"g","e","m","e","i","n","d","e">>
s_handelskammer == <<"h","a","n","d","e","l","s","k","a","m","m","e","r">>
s_camera_di_commercio == <<"c","a","m","e","r","a"," ","d","i"," ","c","o","m","m","e","r","c","i","o">>
s_rst == <<"r","s","t">>
s_steuer == <<"s","t","e","u","e","r">>
s_commercialista == <<"c","o","m","m","e","r","c","i","a","l","i","s","t","a">>
s_71dot == <<"7","1",".">>
s_software == <<"s","o","f","t","w","a","r","e">>

\* The software vendor names of the fourth rule.
SoftwareVendors == {s_aruba, s_register, s_apple, s_microsoft, s_google, s_adobe}

\* (x or ""): a missing value reads as the empty string.
OrEmpty(x) == IF x = None THEN EmptyStr ELSE x

\* The six vendor/text rules, in the order of the if-chain.
RuleLeasing(n, t) ==
    Contains(n, s_arval) \/ Contains(n, s_lease) \/ Contains(t, s_leasing)

RuleMarketing(n, t) ==
    Contains(n, s_meta) \/ Contains(n, s_facebook) \/ Contains(t, s_ads)

RuleEnergy(n, t) ==
    \/ Contains(n, s_hera) \/ Contains(n, s_alperia)
    \/ Contains(t, s_energie) \/ Contains(t, s_strom) \/ Contains(t, s_gas)

RuleSoftware(n) == \E x \in SoftwareVendors : Contains(n, x)

RuleFees(n, t) ==
    \/ Contains(n, s_gemeinde) \/ Contains(n, s_handelskammer)
    \/ Contains(t, s_camera_di_commercio)

RuleConsulting(n, t) ==
    Contains(n, s_rst) \/ Contains(t, s_steuer) \/ Contains(t, s_commercialista)

\* The account hint, consulted after the vendor/text rules.
RuleAccountHint(a) == StartsWith(a, s_71dot) \/ Contains(a, s_software)

categorize_swapped(vendor_norm, account, text) ==
    LET n == Lower(OrEmpty(vendor_norm))
        a == Lower(OrEmpty(account))
        t == Lower(OrEmpty(text))
    IN  IF RuleAccountHint(a) THEN "Software/IT"
        ELSE IF RuleMarketing(n, t) THEN "Marketing/Werbung"
        ELSE IF RuleLeasing(n, t) THEN "Leasing/Fahrzeug"
        ELSE IF RuleEnergy(n, t) THEN "Energie"
        ELSE IF RuleSoftware(n) THEN "Software/IT"
        ELSE IF RuleFees(n, t) THEN "Gebuehren/Pflicht"
        ELSE IF RuleConsulting(n, t) THEN "Beratung/Dienstleistung"
        ELSE "Sonstiges"

categorize(vendor_norm, account, text) ==
    LET n == Lower(OrEmpty(vendor_norm))
        a == Lower(OrEmpty(account))
        t == Lower(OrEmpty(text))
    IN  IF RuleLeasing(n, t) THEN "Leasing/Fahrzeug"
        ELSE IF RuleMarketing(n, t) THEN "Marketing/Werbung"
        ELSE IF RuleEnergy(n, t) THEN "Energie"
        ELSE IF RuleSoftware(n) THEN "Software/IT"
        ELSE IF RuleFees(n, t) THEN "Gebuehren/Pflicht"
        ELSE IF RuleConsulting(n, t) THEN "Beratung/Dienstleistung"
        ELSE IF RuleAccountHint(a) THEN "Software/IT"
        ELSE "Sonstiges"

-----------------------------------------------------------------------------
(* Frequency Estimator: guess_frequency *)

\* A parsed date: a day number, or NaT when the cell could not be parsed.
NaT == [valid |-> FALSE, day |-> 0]

Date(k) == [valid |-> TRUE, day |-> k]

\* Series.dropna()
DropNa(dates) == SelectSeq(dates, LAMBDA x : x.valid)

RECURSIVE InsertSorted(_, _)
InsertSorted(x, s) ==
    IF s = <<>> THEN <<x>>
    ELSE IF x <= Head(s) THEN <<x>> \o s
         ELSE <<Head(s)>> \o InsertSorted(x, Tail(s))

\* Series.sort_values() on the day numbers.
RECURSIVE SortValues(_)
SortValues(s) ==
    IF s = <<>> THEN <<>> ELSE InsertSorted(Head(s), SortValues(Tail(s)))

\* dates.diff().dt.days.dropna(): the n-1 gaps between neighbours.
Diff(s) == [i \in 1..(Len(s) - 1) |-> s[i + 1] - s[i]]

\* Twice Series.median(): the middle element, or the mean of the two middle
\* ones, kept as an integer by doubling.
Median2(s) ==
    LET o == SortValues(s)
        n == Len(o)
    IN  IF n % 2 = 1 THEN 2 * o[(n + 1) \div 2]
        ELSE o[n \div 2] + o[n \div 2 + 1]

\* The if-chain over the bands; med2 is twice the median.
BandOf_open(med2) ==
    IF 2 * 25 < med2 /\ med2 < 2 * 35 THEN "monatlich"
    ELSE IF 2 * 55 < med2 /\ med2 < 2 * 75 THEN "zweimonatlich"
    ELSE IF 2 * 80 < med2 /\ med2 < 2 * 110 THEN "quartal"
    ELSE IF 2 * 330 < med2 /\ med2 < 2 * 400 THEN "jaehrlich"
    ELSE "unklar"

BandOf(med2) ==
    IF 2 * 25 <= med2 /\ med2 <= 2 * 35 THEN "monatlich"
    ELSE IF 2 * 55 <= med2 /\ med2 <= 2 * 75 THEN "zweimonatlich"
    ELSE IF 2 * 80 <= med2 /\ med2 <= 2 * 110 THEN "quartal"
    ELSE IF 2 * 330 <= med2 /\ med2 <= 2 * 400 THEN "jaehrlich"
    ELSE "unklar"

guess_frequency(dates) ==
    LET days   == SortValues([i \in 1..Len(DropNa(dates)) |-> DropNa(dates)[i].day])
        deltas == Diff(days)
    IN  IF Len(days) < 3 THEN "unklar"
        ELSE IF deltas = <<>> THEN "unklar"
        ELSE BandOf(Median2(deltas))

-----------------------------------------------------------------------------
(* Ingestion: auto_map_columns and the normalised frame *)

s_date == <<"d","a","t","e">>
s_datum == <<"d","a","t","u","m">>
s_data == <<"d","a","t","a">>
s_amount == <<"a","m","o","u","n","t">>
s_importo == <<"i","m","p","o","r","t","o">>
s_betrag == <<"b","e","t","r","a","g">>
s_netto == <<"n","e","t","t","o">>
s_vendor == <<"v","e","n","d","o","r">>
s_fornitore == <<"f","o","r","n","i","t","o","r","e">>
s_lieferant == <<"l","i","e","f","e","r","a","n","t">>
s_empfaenger == <<"e","m","p","f","a","e","n","g","e","r">>
s_account == <<"a","c","c","o","u","n","t">>
s_konto == <<"k","o","n","t","o">>
s_conto == <<"c","o","n","t","o">>
s_text == <<"t","e","x","t">>
s_descrizione == <<"d","e","s","c","r","i","z","i","o","n","e">>
s_beschreibung == <<"b","e","s","c","h","r","e","i","b","u","n","g">>
s_verwendungszweck == <<"v","e","r","w","e","n","d","u","n","g","s","z","w","e","c","k">>

REQUIRED_KEYS == <<"date", "amount", "vendor">>

\* The synonyms of each internal key (the spelling with a-umlaut of
\* "empfaenger" is outside the ASCII alphabet of the model).
Synonyms(key) ==
    CASE key = "date"    -> {s_date, s_datum, s_data}
      [] key = "amount"  -> {s_amount, s_importo, s_betrag, s_netto}
      [] key = "vendor"  -> {s_vendor, s_fornitore, s_lieferant, s_empfaenger}
      [] key = "account" -> {s_account, s_konto, s_conto}
      [] key = "text"    -> {s_text, s_descrizione, s_beschreibung, s_verwendungszweck}

AllKeys == {"date", "amount", "vendor", "account", "text"}

\* Whether column c (stripped, lowercased) carries a synonym of key.
ColumnMatches(c, key) == \E k \in Synonyms(key) : Contains(Lower(Strip(c)), k)

\* The loop assigns col_map[key] = c for every matching column in turn, so
\* the last matching column stays; a key no column matches is absent.
auto_map_columns(columns) ==
    LET hit(key) == {i \in 1..Len(columns) : ColumnMatches(columns[i], key)}
        last(key) == CHOOSE i \in hit(key) : \A j \in hit(key) : j <= i
    IN  [key \in {k \in AllKeys : hit(k) # {}} |-> columns[last(key)]]

\* missing = [k for k in REQUIRED_KEYS if k not in col_map]
Missing(cm) == SelectSeq(REQUIRED_KEYS, LAMBDA k : k \notin DOMAIN cm)

\* A raw CSV cell of a date or amount column: text that parses to the number
\* v, or text that does not parse (v is then unused).
Cell(ok, v) == [ok |-> ok, v |-> v]

\* parse_date: pd.to_datetime(s, errors="coerce", dayfirst=True)
parse_date(c) == IF c.ok THEN Date(c.v) ELSE NaT

\* Days from 0001-01-01 to the first of January of year y (Gregorian).
DaysBefore(y) ==
    365 * (y - 1) + ((y - 1) \div 4) - ((y - 1) \div 100) + ((y - 1) \div 400)

\* The day number of y-01-01, counted from 2023-01-01.
YearStart(y) == DaysBefore(y) - DaysBefore(2023)

YearRange == 2000..2100

\* Series.dt.year of one valid date.
YearOf(day) == CHOOSE y \in YearRange : YearStart(y) <= day /\ day < YearStart(y + 1)

\* pd.to_numeric(..., errors="coerce").fillna(0.0) on one cell.
to_numeric_fillna(c) == IF c.ok THEN c.v ELSE 0

\* One row of the normalised frame (lines 212-226); a dataset without account
\* and text columns gets "" in both.
NormalRow(r) ==
    [date       |-> parse_date(r.date),
     year       |-> IF r.date.ok THEN YearOf(r.date.v) ELSE 0,
     amount_net |-> to_numeric_fillna(r.amount),
     vendor_raw |-> r.vendor,
     account    |-> EmptyStr,
     text       |-> EmptyStr]

\* The dtype of d["year"]: .dt.year of a datetime column that holds a NaT is
\* float64 (NaN cannot be an integer), and int32 when every date parsed.
\* Filtering the rows afterwards keeps the dtype.
YearDtype(rows) ==
    IF \E i \in 1..Len(rows) : ~rows[i].date.valid THEN "float64" ELSE "int32"

\* d["year"].between(year_min, year_max) & (d["amount_net"] > 0); a NaN year
\* is never between.
Admitted(r, c) ==
    /\ r.date.valid
    /\ c.year_min <= r.year /\ r.year <= c.year_max
    /\ r.amount_net > 0

\* Lines 234-236: the two derived columns.
WithVendorAndCategory(r) ==
    LET vn == norm_vendor(r.vendor_raw)
    IN  [date |-> r.date, year |-> r.year, amount_net |-> r.amount_net,
         vendor_raw |-> r.vendor_raw, account |-> r.account, text |-> r.text,
         vendor_norm |-> vn,
         category |-> categorize(vn, r.account, r.text)]

\* The frame d after lines 212-236.
NormalFrame(raw, c) ==
    LET all  == [i \in 1..Len(raw) |-> NormalRow(raw[i])]
        kept == SelectSeq(all, LAMBDA r : Admitted(r, c))
    IN  [rows       |-> [i \in 1..Len(kept) |-> WithVendorAndCategory(kept[i])],
         year_dtype |-> YearDtype(all)]

-----------------------------------------------------------------------------
(* Aggregator: vendor_year, pivot, years *)

RECURSIVE SumSeq(_)
SumSeq(s) == IF s = <<>> THEN 0 ELSE Head(s) + SumSeq(Tail(s))

\* d.groupby(["vendor_norm", "year"]).agg(sum, size): one record per key that
\* has at least one row.
GroupBy(rows) ==
    LET keys == {<<rows[i].vendor_norm, rows[i].year>> : i \in 1..Len(rows)}
        grp(k) == SelectSeq(rows, LAMBDA r : r.vendor_norm = k[1] /\ r.year = k[2])
    IN  {[vendor_norm |-> k[1], year |-> k[2],
          sum_net |-> SumSeq([i \in 1..Len(grp(k)) |-> grp(k)[i].amount_net]),
          count   |-> Len(grp(k))] : k \in keys}

PivotIndex(vy) == {r.vendor_norm : r \in vy}

PivotColumns(vy) == {r.year : r \in vy}

\* pivot.loc[v][y] after fillna(0.0)
Pivot(vy, v, y) ==
    IF \E r \in vy : r.vendor_norm = v /\ r.year = y
    THEN (CHOOSE r \in vy : r.vendor_norm = v /\ r.year = y).sum_net
    ELSE 0

RECURSIVE SortedInts(_)
SortedInts(S) ==
    IF S = {} THEN <<>>
    ELSE LET m == CHOOSE x \in S : \A y \in S : x <= y
         IN  <<m>> \o SortedInts(S \ {m})

\* sorted([y for y in pivot.columns if isinstance(y, (int, np.integer))]):
\* the labels of a float64 year column are floats and are all filtered out.
YearsOfPivot(vy, year_dtype) ==
    IF year_dtype = "int32" THEN SortedInts(PivotColumns(vy)) ELSE <<>>

\* The order of str values: the rank of each character that norm_vendor keeps.
CharOrder == <<" ", "-", ".", "0","1","2","3","4","5","6","7","8","9">> \o LowerLetters

CharRank(c) == CHOOSE i \in 1..Len(CharOrder) : CharOrder[i] = c

RECURSIVE LexLess(_, _)
LexLess(a, b) ==
    IF b = <<>> THEN FALSE
    ELSE IF a = <<>> THEN TRUE
    ELSE IF Head(a) = Head(b) THEN LexLess(Tail(a), Tail(b))
    ELSE CharRank(Head(a)) < CharRank(Head(b))

\* The pivot's index: the vendor keys in sorted order.
RECURSIVE SortedVendors(_)
SortedVendors(S) ==
    IF S = {} THEN <<>>
    ELSE LET m == CHOOSE x \in S : \A y \in S \ {x} : LexLess(x, y)
         IN  <<m>> \o SortedVendors(S \ {m})

-----------------------------------------------------------------------------
(* Vendor profile: total, years_nonzero, latest_cost, freq_guess, category *)

SeqMax(s) == CHOOSE x \in Range(s) : \A y \in Range(s) : y <= x

\* pivot.sum(axis=1)
Total(vy, v) == SumSeq([i \in 1..Len(SortedInts(PivotColumns(vy))) |->
                          Pivot(vy, v, SortedInts(PivotColumns(vy))[i])])

YearsNonzero_ge(vy, v) == Cardinality({y \in PivotColumns(vy) : Pivot(vy, v, y) >= 0})

\* (pivot > 0).sum(axis=1)
YearsNonzero(vy, v) == Cardinality({y \in PivotColumns(vy) : Pivot(vy, v, y) > 0})

\* x.value_counts().index[0]: the most frequent value, the first met on a tie.
Mode(s) ==
    LET cnt(x) == Cardinality({i \in 1..Len(s) : s[i] = x})
        first(x) == CHOOSE i \in 1..Len(s) : s[i] = x /\ \A j \in 1..(i - 1) : s[j] # x
    IN  CHOOSE x \in Range(s) :
            \A y \in Range(s) \ {x} :
                cnt(x) > cnt(y) \/ (cnt(x) = cnt(y) /\ first(x) < first(y))

VendorRows(rows, v) == SelectSeq(rows, LAMBDA r : r.vendor_norm = v)

\* cat_map
CatMap(rows) ==
    [v \in {rows[i].vendor_norm : i \in 1..Len(rows)} |->
        Mode([i \in 1..Len(VendorRows(rows, v)) |-> VendorRows(rows, v)[i].category])]

\* freq_map
FreqMap(rows) ==
    [v \in {rows[i].vendor_norm : i \in 1..Len(rows)} |->
        guess_frequency([i \in 1..Len(VendorRows(rows, v)) |-> VendorRows(rows, v)[i].date])]

\* The table "recurring" (lines 254-275), one record per vendor.
Profile(rows, vy, yrs) ==
    [v \in PivotIndex(vy) |->
        LET yn == YearsNonzero(vy, v)
            fg == FreqMap(rows)[v]
        IN  [total          |-> Total(vy, v),
             years_nonzero  |-> yn,
             latest_year    |-> SeqMax(yrs),
             latest_cost    |-> Pivot(vy, v, SeqMax(yrs)),
             freq_guess     |-> fg,
             category       |-> CatMap(rows)[v],
             recurring_flag |-> (yn >= 2) \/
                 fg \in {"monatlich", "quartal", "zweimonatlich", "jaehrlich"}]]

-----------------------------------------------------------------------------
(* Alarm Detector *)

Abs(x) == IF x < 0 THEN -x ELSE x

\* A float percentage kept exact: num / den with den > 0.
Frac(num, den) == [num |-> num, den |-> den]

\* The pct of a NEU record is None: no number, written with denominator 0.
NoPct == Frac(0, 0)

\* abs(pct) >= TH for pct = num / den
AbsAtLeast(pct, th) == Abs(pct.num) >= th * pct.den

AlarmRecord_absdelta(v, y1, y2, typ, base, new, delta, pct) ==
    [anbieter |-> v, periode |-> <<y1, y2>>, typ |-> typ,
     basis |-> base, neu |-> new, delta |-> Abs(delta), pct |-> pct]

AlarmRecord(v, y1, y2, typ, base, new, delta, pct) ==
    [anbieter |-> v, periode |-> <<y1, y2>>, typ |-> typ,
     basis |-> base, neu |-> new, delta |-> delta, pct |-> pct]

AlarmCell_strict(v, y1, y2, base, new, TH, MIN) ==
    IF base = 0 /\ new > MIN
    THEN <<AlarmRecord(v, y1, y2, "NEU", base, new, new, NoPct)>>
    ELSE IF base > MIN /\ new = 0
    THEN <<AlarmRecord(v, y1, y2, "WEG", base, new, -base, Frac(-100, 1))>>
    ELSE IF base > MIN /\ new > 0
    THEN LET pct == Frac((new - base) * 100, base)
         IN  IF AbsAtLeast(pct, TH)
             THEN <<AlarmRecord(v, y1, y2, "AENDERUNG", base, new, new - base, pct)>>
             ELSE <<>>
    ELSE <<>>

\* The body of the inner loop (lines 293-303): the records it appends for
\* one vendor and one pair of consecutive years.
AlarmCell(v, y1, y2, base, new, TH, MIN) ==
    IF base = 0 /\ new >= MIN
    THEN <<AlarmRecord(v, y1, y2, "NEU", base, new, new, NoPct)>>
    ELSE IF base >= MIN /\ new = 0
    THEN <<AlarmRecord(v, y1, y2, "WEG", base, new, -base, Frac(-100, 1))>>
    ELSE IF base >= MIN /\ new > 0
    THEN LET pct == Frac((new - base) * 100, base)
         IN  IF AbsAtLeast(pct, TH)
             THEN <<AlarmRecord(v, y1, y2, "AENDERUNG", base, new, new - base, pct)>>
             ELSE <<>>
    ELSE <<>>

RECURSIVE Flatten(_)
Flatten(ss) == IF ss = <<>> THEN <<>> ELSE Head(ss) \o Flatten(Tail(ss))

\* zip(years[:-1], years[1:])
YearPairs(yrs) == [i \in 1..(Len(yrs) - 1) |-> <<yrs[i], yrs[i + 1]>>]

\* The two nested loops: vendors in index order, year pairs in order.
AlarmLoop(vy, yrs, TH, MIN) ==
    LET vs == SortedVendors(PivotIndex(vy))
        ps == YearPairs(yrs)
    IN  Flatten([i \in 1..Len(vs) |->
            Flatten([j \in 1..Len(ps) |->
                AlarmCell(vs[i], ps[j][1], ps[j][2],
                          Pivot(vy, vs[i], ps[j][1]), Pivot(vy, vs[i], ps[j][2]),
                          TH, MIN)])])

\* Row a sorts before row b: periode ascending (the labels "y1->y2" of
\* four-digit years order as the years do), then delta descending.
AlarmBefore(a, b) ==
    \/ a.periode[1] < b.periode[1]
    \/ a.periode[1] = b.periode[1] /\ a.periode[2] < b.periode[2]
    \/ a.periode = b.periode /\ a.delta > b.delta

RECURSIVE InsertAlarm(_, _)
InsertAlarm(x, s) ==
    IF s = <<>> THEN <<x>>
    ELSE IF AlarmBefore(Head(s), x)
         THEN <<Head(s)>> \o InsertAlarm(x, Tail(s))
         ELSE <<x>> \o s

\* alarms_df.sort_values(["periode", "delta"], ascending=[True, False]): a
\* sort on several keys is stable, rows with equal keys keep their order.
RECURSIVE SortAlarms(_)
SortAlarms(s) ==
    IF s = <<>> THEN <<>>
    ELSE InsertAlarm(s[Len(s)], SortAlarms(SubSeq(s, 1, Len(s) - 1)))

\* alarms_df after lines 305-308: the category column and the sort.
AlarmsDf(vy, yrs, TH, MIN, cat_map) ==
    LET raw == AlarmLoop(vy, yrs, TH, MIN)
        withCat(a) ==
            [anbieter |-> a.anbieter, periode |-> a.periode, typ |-> a.typ,
             basis |-> a.basis, neu |-> a.neu, delta |-> a.delta, pct |-> a.pct,
             category |-> IF a.anbieter \in DOMAIN cat_map
                          THEN cat_map[a.anbieter] ELSE "Sonstiges"]
    IN  SortAlarms([i \in 1..Len(raw) |-> withCat(raw[i])])

-----------------------------------------------------------------------------
(* Savings Estimator *)

\* SAVING_RATES in percent; .fillna(0.10) gives an unmapped category 10.
SavingRatePct(category) ==
    CASE category = "Leasing/Fahrzeug"        -> 5
      [] category = "Marketing/Werbung"       -> 15
      [] category = "Energie"                 -> 10
      [] category = "Software/IT"             -> 20
      [] category = "Gebuehren/Pflicht"       -> 0
      [] category = "Beratung/Dienstleistung" -> 5
      [] category = "Sonstiges"               -> 10
      [] OTHER                                -> 10

Round2_ceil(n, tieUp) ==
    IF n % 100 > 0 THEN n \div 100 + 1 ELSE n \div 100

\* .round(2) of sum_net * rate, in cents: n is cents * percent, that is the
\* product in hundredths of a cent.  The nearest cent; a product that lies
\* exactly halfway is not exact in binary floating point, and the result then
\* follows the representation error: tieUp says which way.
Round2(n, tieUp) ==
    IF n % 100 > 50 \/ (n % 100 = 50 /\ tieUp) THEN n \div 100 + 1 ELSE n \div 100

RECURSIVE SumOver(_, _)
SumOver(f, S) ==
    IF S = {} THEN 0
    ELSE LET x == CHOOSE x \in S : TRUE IN f[x] + SumOver(f, S \ {x})

\* Lines 314-322 for one way the halfway cases round (up: the vendors whose
\* halfway product rounds up).
SavingsOf(vy, latest_year, cat_map, up) ==
    LET lv == {r \in vy : r.year = latest_year}
        vs == {r.vendor_norm : r \in lv}
        row(v) ==
            LET r   == CHOOSE r \in lv : r.vendor_norm = v
                cat == IF v \in DOMAIN cat_map THEN cat_map[v] ELSE "Sonstiges"
            IN  [sum_net |-> r.sum_net, count |-> r.count, category |-> cat,
                 rate |-> SavingRatePct(cat),
                 potential_eur |-> Round2(r.sum_net * SavingRatePct(cat), v \in up)]
        rows == [v \in vs |-> row(v)]
        cost == SumOver([v \in vs |-> rows[v].sum_net], vs)
        pot  == SumOver([v \in vs |-> rows[v].potential_eur], vs)
    IN  [rows |-> rows,
         relevant_cost   |-> cost,
         potential_total |-> pot,
         potential_pct   |-> IF cost > 0 THEN Frac(pot * 100, cost) ELSE Frac(0, 1)]

-----------------------------------------------------------------------------
(* Exports *)

ExcelSheets_always(alarms_df) ==
    <<"trends_fixkosten", "alarme", "einsparpotenzial">>

\* The sheets the ExcelWriter block writes (lines 370-374).
ExcelSheets(alarms_df) ==
    <<"trends_fixkosten">>
    \o (IF alarms_df # <<>> THEN <<"alarme">> ELSE <<>>)
    \o <<"einsparpotenzial">>

\* The summary rows handed to build_pdf (lines 379-387); the figures are
\* kept as numbers, the code formats them as text.
PdfSummary(c, latest_year, sv, alarms_df) ==
    [zeitraum        |-> <<c.year_min, c.year_max>>,
     letztes_jahr    |-> latest_year,
     relevant_cost   |-> sv.relevant_cost,
     potential_total |-> sv.potential_total,
     potential_pct   |-> sv.potential_pct,
     alarme          |-> IF alarms_df # <<>> THEN Len(alarms_df) ELSE 0]

-----------------------------------------------------------------------------
(* The report run: the script from the upload to the downloads *)

\* Most rows in an uploaded file.
MaxRows == 3

Datum == <<"D","a","t","u","m">>

Betrag == <<"B","e","t","r","a","g">>

Lieferant == <<"L","i","e","f","e","r","a","n","t">>

\* The headers of the uploaded files: all required columns, or no vendor column.
Headers == {<<Datum, Betrag, Lieferant>>, <<Datum, Betrag>>}

VendorA == <<"A">>

VendorB == <<"b">>

\* 2023-01-01, 2024-01-01 and 2025-01-01 as day numbers.
DaysInRange == {YearStart(2023), YearStart(2024), YearStart(2025)}

RawRow(dt, am, v) == [date |-> dt, amount |-> am, vendor |-> v]

\* The rows of the uploaded files: every admissible combination, and one row
\* for each way a row is rejected (unparseable date, year before year_min,
\* unparseable amount, negative amount).
RowDomain ==
    {RawRow(Cell(TRUE, dy), Cell(TRUE, 100), v) : dy \in DaysInRange, v \in {VendorA, VendorB}}
    \cup {RawRow(Cell(FALSE, 0), Cell(TRUE, 100), VendorA),
          RawRow(Cell(TRUE, YearStart(2022)), Cell(TRUE, 100), VendorA),
          RawRow(Cell(TRUE, YearStart(2023)), Cell(FALSE, 0), VendorA),
          RawRow(Cell(TRUE, YearStart(2023)), Cell(TRUE, -50), VendorA)}

\* A file without a vendor column has no vendor cells.
RowsUnder(header, rows) ==
    IF Lieferant \in Range(header) THEN rows
    ELSE [i \in 1..Len(rows) |-> RawRow(rows[i].date, rows[i].amount, None)]

\* The sidebar inputs (lines 188-191): the default years, the threshold at
\* the top of the slider's range 5..50 (the row amounts of RowDomain change by
\* 50 percent or more, or not at all) and two minimum bases, in cents.
Configs ==
    [year_min : {2023}, year_max : {2025}, TH : {50}, MIN : {100, 200}]

Tables == {"trend", "alarms", "savings"}

\* The script has not run past the sidebar.
Unset ==
    /\ df = <<>>
    /\ col_map = <<>>
    /\ d = <<>>
    /\ vendor_year = {}
    /\ years = <<>>
    /\ recurring = <<>>
    /\ alarms = <<>>
    /\ savings = <<>>
    /\ ui = {}
    /\ excel = <<>>
    /\ pdf = <<>>

FnIdle == fn = "none" /\ args = <<>> /\ ret = <<>>

Init ==
    /\ pc = "upload"
    /\ cfg \in Configs
    /\ Unset
    /\ FnIdle

\* Lines 193-195: without an uploaded file the script stops.
CheckUpload ==
    /\ pc = "upload"
    /\ \/ /\ pc' = "read"
          /\ UNCHANGED ui
       \/ /\ pc' = "stopped"
          /\ ui' = ui \cup {"info: upload a CSV"}
    /\ UNCHANGED <<cfg, df, col_map, d, vendor_year, years, recurring, alarms,
                   savings, excel, pdf, fnVars>>

\* Lines 197-202: read_csv_auto returns the frame, or raises and the run stops.
ReadCsv ==
    /\ pc = "read"
    /\ \/ \E header \in Headers, rows \in StringsUpTo(RowDomain, MaxRows) :
            /\ df' = [columns |-> header, rows |-> RowsUnder(header, rows)]
            /\ pc' = "map"
            /\ UNCHANGED ui
       \/ /\ pc' = "stopped"
          /\ ui' = ui \cup {"error: CSV unreadable"}
          /\ UNCHANGED df
    /\ UNCHANGED <<cfg, col_map, d, vendor_year, years, recurring, alarms,
                   savings, excel, pdf, fnVars>>

MissingRequired_never(cm) == FALSE

\* if missing:
MissingRequired(cm) == Missing(cm) # <<>>

\* Lines 204-209: the column mapping and the guard on the required keys.
MapColumns ==
    /\ pc = "map"
    /\ col_map' = auto_map_columns(df.columns)
    /\ \/ /\ MissingRequired(col_map')
          /\ pc' = "stopped"
          /\ ui' = ui \cup {"error: missing columns", "detected columns"}
       \/ /\ ~MissingRequired(col_map')
          /\ pc' = "normalize"
          /\ UNCHANGED ui
    /\ UNCHANGED <<cfg, df, d, vendor_year, years, recurring, alarms,
                   savings, excel, pdf, fnVars>>

\* Lines 211-236: the normalised frame, the admission filter and its guard.
Normalize ==
    /\ pc = "normalize"
    /\ d' = NormalFrame(df.rows, cfg)
    /\ \/ /\ d'.rows = <<>>
          /\ pc' = "stopped"
          /\ ui' = ui \cup {"warning: no row left"}
       \/ /\ d'.rows # <<>>
          /\ pc' = "aggregate"
          /\ UNCHANGED ui
    /\ UNCHANGED <<cfg, df, col_map, vendor_year, years, recurring, alarms,
                   savings, excel, pdf, fnVars>>

\* Lines 242-252: the group-by, the pivot's year columns and their guard.
Aggregate ==
    /\ pc = "aggregate"
    /\ vendor_year' = GroupBy(d.rows)
    /\ years' = YearsOfPivot(vendor_year', d.year_dtype)
    /\ \/ /\ years' = <<>>
          /\ pc' = "stopped"
          /\ ui' = ui \cup {"error: no year data"}
       \/ /\ years' # <<>>
          /\ pc' = "profile"
          /\ UNCHANGED ui
    /\ UNCHANGED <<cfg, df, col_map, d, recurring, alarms, savings, excel, pdf, fnVars>>

\* Lines 254-280: the vendor profiles behind the trend table.
BuildProfile ==
    /\ pc = "profile"
    /\ recurring' = Profile(d.rows, vendor_year, years)
    /\ pc' = "alarms"
    /\ UNCHANGED <<cfg, df, col_map, d, vendor_year, years, alarms, savings,
                   ui, excel, pdf, fnVars>>

\* Lines 286-308.
DetectAlarms ==
    /\ pc = "alarms"
    /\ alarms' = AlarmsDf(vendor_year, years, cfg.TH, cfg.MIN, CatMap(d.rows))
    /\ pc' = "savings"
    /\ UNCHANGED <<cfg, df, col_map, d, vendor_year, years, recurring, savings,
                   ui, excel, pdf, fnVars>>

\* Lines 314-322.
EstimateSavings ==
    /\ pc = "savings"
    /\ \E up \in SUBSET PivotIndex(vendor_year) :
          savings' = SavingsOf(vendor_year, SeqMax(years), CatMap(d.rows), up)
    /\ pc' = "tabs"
    /\ UNCHANGED <<cfg, df, col_map, d, vendor_year, years, recurring, alarms,
                   ui, excel, pdf, fnVars>>

\* Lines 328-359: the tabs show the trend table, the alarm table or a note
\* that there is none, and the savings table.
RenderTabs ==
    /\ pc = "tabs"
    /\ ui' = ui \cup {"trend", "savings"}
                \cup (IF alarms = <<>> THEN {"info: no alarms"} ELSE {"alarms"})
    /\ pc' = "excel"
    /\ UNCHANGED <<cfg, df, col_map, d, vendor_year, years, recurring, alarms,
                   savings, excel, pdf, fnVars>>

\* Lines 368-376.
ExportExcel ==
    /\ pc = "excel"
    /\ excel' = ExcelSheets(alarms)
    /\ pc' = "pdf"
    /\ UNCHANGED <<cfg, df, col_map, d, vendor_year, years, recurring, alarms,
                   savings, ui, pdf, fnVars>>

\* Lines 378-388.
ExportPdf ==
    /\ pc = "pdf"
    /\ pdf' = <<PdfSummary(cfg, SeqMax(years), savings, alarms)>>
    /\ pc' = "done"
    /\ UNCHANGED <<cfg, df, col_map, d, vendor_year, years, recurring, alarms,
                   savings, ui, excel, fnVars>>

Next ==
    \/ CheckUpload
    \/ ReadCsv
    \/ MapColumns
    \/ Normalize
    \/ Aggregate
    \/ BuildProfile
    \/ DetectAlarms
    \/ EstimateSavings
    \/ RenderTabs
    \/ ExportExcel
    \/ ExportPdf

Spec == Init /\ [][Next]_vars

-----------------------------------------------------------------------------
(* The alarm detector and the savings estimator on wider amounts: the run   *)
(* is taken up at the stage in question, in the state the earlier stages    *)
(* leave for the dataset.                                                   *)

FullHeader == <<Datum, Betrag, Lieferant>>

\* The state of a run on (header, rows) under configuration c that has
\* arrived at stage "alarms" or "savings".
ArrivedAt(stage, c, rows) ==
    \E dd \in {NormalFrame(rows, c)} :
    \E vy \in {GroupBy(dd.rows)} :
    \E ys \in {YearsOfPivot(vy, dd.year_dtype)} :
        /\ pc = stage
        /\ cfg = c
        /\ df = [columns |-> FullHeader, rows |-> rows]
        /\ col_map = auto_map_columns(FullHeader)
        /\ d = dd
        /\ vendor_year = vy
        /\ years = ys
        /\ recurring = Profile(dd.rows, vy, ys)
        /\ alarms = IF stage = "savings"
                    THEN AlarmsDf(vy, ys, c.TH, c.MIN, CatMap(dd.rows))
                    ELSE <<>>
        /\ savings = <<>>
        /\ ui = {}
        /\ excel = <<>>
        /\ pdf = <<>>
        /\ FnIdle

\* Largest yearly total of the vendor under test in the alarm cells.
MaxAmount == 21

\* (base, new, TH, MIN) of the documented scenarios.
ScenarioCells == {<<1000, 1300, 10, 100>>, <<0, 150, 10, 100>>, <<500, 0, 10, 100>>}

AlarmCells ==
    ((0..MaxAmount) \X (0..MaxAmount) \X {5, 10, 50} \X {-5, 0, 5, 10})
    \cup ScenarioCells

\* Vendor "a" has the total base in 2023, new in 2024 (no row for a total of
\* 0) and a row in 2025; vendor "b" has a row in 2023 and in 2024.
AlarmDataset(base, new) ==
    (IF base > 0
     THEN <<RawRow(Cell(TRUE, YearStart(2023)), Cell(TRUE, base), VendorA)>> ELSE <<>>)
    \o (IF new > 0
        THEN <<RawRow(Cell(TRUE, YearStart(2024)), Cell(TRUE, new), VendorA)>> ELSE <<>>)
    \o <<RawRow(Cell(TRUE, YearStart(2025)), Cell(TRUE, 7), VendorA),
         RawRow(Cell(TRUE, YearStart(2023)), Cell(TRUE, 7), VendorB),
         RawRow(Cell(TRUE, YearStart(2024)), Cell(TRUE, 7), VendorB)>>

InitAlarm ==
    \E cell \in AlarmCells :
        ArrivedAt("alarms",
                  [year_min |-> 2023, year_max |-> 2025, TH |-> cell[3], MIN |-> cell[4]],
                  AlarmDataset(cell[1], cell[2]))

SpecAlarm == InitAlarm /\ [][DetectAlarms]_vars

\* Most vendors with a total in the latest year.
MaxSavVendors == 2

\* Vendor names of five categories, with the rates 5, 15, 10, 20 and 0.
SavVendors ==
    { <<"A","r","v","a","l">>, <<"M","e","t","a">>, <<"H","e","r","a">>,
      <<"A","r","u","b","a">>, <<"G","e","m","e","i","n","d","e">> }

\* Latest-year totals in cents, small ones among them.
SavAmounts == {3, 10, 250, 12345}

SavRows ==
    {RawRow(Cell(TRUE, YearStart(2024)), Cell(TRUE, a), v) : a \in SavAmounts, v \in SavVendors}

\* One row per vendor.
SavDatasets ==
    {rows \in StringsUpTo(SavRows, MaxSavVendors) :
        /\ rows # <<>>
        /\ \A i, j \in 1..Len(rows) : i # j => rows[i].vendor # rows[j].vendor}

InitSavings ==
    \E rows \in SavDatasets :
        ArrivedAt("savings",
                  [year_min |-> 2023, year_max |-> 2025, TH |-> 10, MIN |-> 100],
                  rows)

SpecSavings == InitSavings /\ [][EstimateSavings]_vars

-----------------------------------------------------------------------------
(* The report run is not started while a helper is exercised on its own. *)

PipeIdle ==
    /\ pc = "idle"
    /\ cfg = <<>>
    /\ Unset

\* A helper has been called and has not returned yet.
Pending == <<>>

Returned == ret # Pending

-----------------------------------------------------------------------------
(* norm_vendor on bounded vendor strings *)

\* Longest vendor string drawn from NormAlphabet.
MaxLen == 4

NormAlphabet == {"A", "c", " ", "\t", "&", "!"}

AcmeAmpCo == <<"A","c","m","e"," ","&"," ","C","o",".">>

AcmeUndCo == <<"A","c","m","e"," ","u","n","d"," ","C","o",".">>

acme_und_co == <<"a","c","m","e"," ","u","n","d"," ","c","o",".">>

VendorInputs == StringsUpTo(NormAlphabet, MaxLen) \cup {AcmeAmpCo, AcmeUndCo, None}

InitNorm ==
    /\ PipeIdle
    /\ fn = "norm_vendor"
    /\ args \in {<<v>> : v \in VendorInputs}
    /\ ret = Pending

CallNormVendor ==
    /\ fn = "norm_vendor"
    /\ ret = Pending
    /\ ret' = <<norm_vendor(args[1])>>
    /\ UNCHANGED <<pipeVars, fn, args>>

SpecNorm == InitNorm /\ [][CallNormVendor]_vars

-----------------------------------------------------------------------------
(* categorize on bounded (vendor_norm, account, text) *)

\* Most words in a vendor name.
MaxWords == 2

s_x == <<"x">>

VendorWords == {s_arval, s_lease, s_leasing, s_meta, s_hera, s_aruba,
                s_gemeinde, s_rst, s_x}

RECURSIVE Names(_)
Names(n) ==
    IF n = 0 THEN {<<>>}
    ELSE LET shorter == Names(n - 1)
         IN  shorter \cup {IF s = <<>> THEN w ELSE s \o <<" ">> \o w :
                             s \in shorter, w \in VendorWords}

AccountInputs ==
    { EmptyStr, None,
      <<"7","1",".","2","0">>,
      <<"4",".","7","1",".">>,
      <<"I","T"," ","S","o","f","t","w","a","r","e">> }

TextInputs ==
    { EmptyStr,
      <<"L","e","a","s","i","n","g">>,
      <<"a","d","s">>,
      <<"G","a","s">>,
      s_steuer }

InitCat ==
    /\ PipeIdle
    /\ fn = "categorize"
    /\ args \in Names(MaxWords) \X AccountInputs \X TextInputs
    /\ ret = Pending

CallCategorize ==
    /\ fn = "categorize"
    /\ ret = Pending
    /\ ret' = <<categorize(args[1], args[2], args[3])>>
    /\ UNCHANGED <<pipeVars, fn, args>>

SpecCat == InitCat /\ [][CallCategorize]_vars

-----------------------------------------------------------------------------
(* guess_frequency on bounded date series *)

\* Most dates in one vendor's series.
MaxDates == 4

DayValues == {0, 24, 25, 30, 60, 70, 72, 110, 220, 400, 800, 802}

DateInputs == {Date(k) : k \in DayValues} \cup {NaT}

InitFreq ==
    /\ PipeIdle
    /\ fn = "guess_frequency"
    /\ args \in {<<s>> : s \in StringsUpTo(DateInputs, MaxDates)}
    /\ ret = Pending

CallGuessFrequency ==
    /\ fn = "guess_frequency"
    /\ ret = Pending
    /\ ret' = <<guess_frequency(args[1])>>
    /\ UNCHANGED <<pipeVars, fn, args>>

SpecFreq == InitFreq /\ [][CallGuessFrequency]_vars

-----------------------------------------------------------------------------
(* Properties of the helpers *)

\* The k-th smallest value of a sequence of integers, by counting.
Kth(s, k) ==
    CHOOSE v \in Range(s) :
        /\ Cardinality({i \in 1..Len(s) : s[i] <= v}) >= k
        /\ \A w \in Range(s) :
             Cardinality({i \in 1..Len(s) : s[i] <= w}) >= k => v <= w

\* The non-null day numbers of a date series, in the order given.
ValidDays(dates) ==
    LET idx == {i \in 1..Len(dates) : dates[i].valid}
        nth(k) == CHOOSE i \in idx : Cardinality({j \in idx : j <= i}) = k
    IN  [k \in 1..Cardinality(idx) |-> dates[nth(k)].day]

\* Twice the median of the gaps between chronologically adjacent dates.
GapMedian2(dates) ==
    LET days == ValidDays(dates)
        gaps == [i \in 1..(Len(days) - 1) |-> Kth(days, i + 1) - Kth(days, i)]
        n    == Len(gaps)
    IN  IF n % 2 = 1 THEN 2 * Kth(gaps, (n + 1) \div 2)
        ELSE Kth(gaps, n \div 2) + Kth(gaps, n \div 2 + 1)

ThirtyApart == <<Date(0), Date(30), Date(60)>>

\* C3: guess_frequency answers "unklar" for fewer than 3 non-null dates and
\* otherwise classifies the median gap by the closed bands [25,35] monthly,
\* [55,75] bi-monthly, [80,110] quarterly, [330,400] yearly, else unclear; a
\* median of exactly 25 or 35 is monthly, 24 or 36 is not, and three dates 30
\* days apart are monthly.
C3_FrequencyBands ==
    (fn = "guess_frequency" /\ Returned) =>
        LET dates == args[1]
            n     == Len(ValidDays(dates))
            m2    == GapMedian2(dates)
            r     == ret[1]
        IN  /\ n < 3 => r = "unklar"
            /\ n >= 3 =>
                 /\ r = "monatlich"     <=> (50 <= m2 /\ m2 <= 70)
                 /\ r = "zweimonatlich" <=> (110 <= m2 /\ m2 <= 150)
                 /\ r = "quartal"       <=> (160 <= m2 /\ m2 <= 220)
                 /\ r = "jaehrlich"     <=> (660 <= m2 /\ m2 <= 800)
                 /\ r \in {"monatlich", "zweimonatlich", "quartal", "jaehrlich", "unklar"}
                 /\ m2 \in {48, 72} => r # "monatlich"
            /\ dates = ThirtyApart => r = "monatlich"

\* A series whose median gap is exactly 25 days has been classified monthly.
C3_Witness ==
    /\ fn = "guess_frequency" /\ Returned
    /\ Len(ValidDays(args[1])) >= 3
    /\ GapMedian2(args[1]) = 50
    /\ ret[1] = "monatlich"

IsLowerCase(k) == \A i \in 1..Len(k) : k[i] \notin Range(UpperLetters)

NoAdjacentSpaces(k) == \A i \in 1..(Len(k) - 1) : ~(k[i] = " " /\ k[i + 1] = " ")

NoOuterSpace(k) == k = <<>> \/ (k[1] # " " /\ k[Len(k)] # " ")

\* C5: norm_vendor yields a lowercase, whitespace-collapsed key (no two
\* adjacent spaces, no leading or trailing space) with "&" expanded to "und";
\* "Acme & Co." normalises to exactly "acme und co." and so has the key of
\* "Acme und Co.".
C5_NormVendorKey ==
    (fn = "norm_vendor" /\ Returned /\ args[1] # None) =>
        LET k == ret[1]
        IN  /\ IsLowerCase(k)
            /\ NoAdjacentSpaces(k)
            /\ NoOuterSpace(k)
            /\ "&" \notin Range(k)
            /\ args[1] = AcmeAmpCo =>
                 (k = acme_und_co /\ k = norm_vendor(AcmeUndCo))

CategoryOrder ==
    <<"Leasing/Fahrzeug", "Marketing/Werbung", "Energie", "Software/IT",
      "Gebuehren/Pflicht", "Beratung/Dienstleistung", "Software/IT">>

\* Which of the seven rules match, in the documented order.
RuleMatches(vendor_norm, account, text) ==
    LET n == Lower(OrEmpty(vendor_norm))
        a == Lower(OrEmpty(account))
        t == Lower(OrEmpty(text))
    IN  <<RuleLeasing(n, t), RuleMarketing(n, t), RuleEnergy(n, t),
          RuleSoftware(n), RuleFees(n, t), RuleConsulting(n, t),
          RuleAccountHint(a)>>

\* C9: categorize returns the category of the first matching rule in the
\* fixed order, else the default; a vendor name with a leasing keyword
\* ("arval", "lease") is Leasing/Fahrzeug whatever later rule also matches,
\* and the account hint decides only when no vendor/text rule matches.
C9_RuleOrder ==
    (fn = "categorize" /\ Returned) =>
        LET m == RuleMatches(args[1], args[2], args[3])
            n == Lower(OrEmpty(args[1]))
            r == ret[1]
        IN  /\ (Contains(n, s_arval) \/ Contains(n, s_lease)) => r = "Leasing/Fahrzeug"
            /\ \A i \in 1..7 :
                 (m[i] /\ \A j \in 1..(i - 1) : ~m[j]) => r = CategoryOrder[i]
            /\ (\A i \in 1..7 : ~m[i]) => r = "Sonstiges"
            /\ (\E i \in 1..6 : m[i]) =>
                 r = CategoryOrder[CHOOSE i \in 1..6 : m[i] /\ \A j \in 1..(i - 1) : ~m[j]]

\* A leasing vendor that also matches marketing, energy (text) and the
\* account hint has been categorised Leasing/Fahrzeug.
C9_Witness ==
    /\ fn = "categorize" /\ Returned
    /\ Contains(args[1], s_arval) /\ Contains(args[1], s_meta)
    /\ args[2] = <<"7","1",".","2","0">>
    /\ args[3] = <<"G","a","s">>
    /\ ret[1] = "Leasing/Fahrzeug"

-----------------------------------------------------------------------------
(* Properties of the alarm detector *)

AlarmsDone == pc \in {"savings", "tabs", "excel", "pdf", "done"}

\* The three documented conditions on one cell.
CondNew(base, new, MIN) == base = 0 /\ new >= MIN

CondDropped(base, new, MIN) == base >= MIN /\ new = 0

\* The percent change is defined for base > 0 only.
CondChanged(base, new, TH, MIN) ==
    base >= MIN /\ new > 0 /\ base > 0 /\ Abs(new - base) * 100 >= TH * base

\* The vendors and years of the filtered dataset, read off its rows.
DatasetVendors == {d.rows[i].vendor_norm : i \in 1..Len(d.rows)}

DatasetYears == {d.rows[i].year : i \in 1..Len(d.rows)}

\* The consecutive pairs of the sorted dataset years.
ConsecutiveYears ==
    {p \in DatasetYears \X DatasetYears :
        p[1] < p[2] /\ ~\E y \in DatasetYears : p[1] < y /\ y < p[2]}

\* total(vendor, year): the sum of the vendor's admitted amounts of the year.
RowTotal(v, y) ==
    LET idx == {i \in 1..Len(d.rows) : d.rows[i].vendor_norm = v /\ d.rows[i].year = y}
    IN  SumOver([i \in idx |-> d.rows[i].amount_net], idx)

RecordsFor(v, p) == SelectSeq(alarms, LAMBDA a : a.anbieter = v /\ a.periode = p)

Outcome(v, p) == IF RecordsFor(v, p) = <<>> THEN "none" ELSE RecordsFor(v, p)[1].typ

\* C1 as stated: on every cell, for every MIN >= 0, the three conditions are
\* pairwise disjoint and the outcome is the one whose condition holds.
C1_Original ==
    (AlarmsDone /\ cfg.MIN >= 0) =>
        \A v \in DatasetVendors, p \in ConsecutiveYears :
            LET b  == RowTotal(v, p[1])
                n  == RowTotal(v, p[2])
                cn == CondNew(b, n, cfg.MIN)
                cd == CondDropped(b, n, cfg.MIN)
                cc == CondChanged(b, n, cfg.TH, cfg.MIN)
            IN  /\ ~(cn /\ cd) /\ ~(cn /\ cc) /\ ~(cd /\ cc)
                /\ Len(RecordsFor(v, p)) <= 1
                /\ Outcome(v, p) = "NEU" <=> cn
                /\ Outcome(v, p) = "WEG" <=> cd
                /\ Outcome(v, p) = "AENDERUNG" <=> cc
                /\ Outcome(v, p) = "none" <=> ~(cn \/ cd \/ cc)

\* C1 (amended): every cell has exactly one outcome, that of the first test
\* that holds in the order NEW, DROPPED, CHANGED, else no alarm; base = MIN
\* counts as base >= MIN; the three conditions are pairwise disjoint when
\* MIN > 0, and for MIN <= 0 a cell with base = new = 0 satisfies both NEW
\* and DROPPED and is recorded as NEW.
C1_Partition ==
    AlarmsDone =>
        \A v \in DatasetVendors, p \in ConsecutiveYears :
            LET b  == RowTotal(v, p[1])
                n  == RowTotal(v, p[2])
                cn == CondNew(b, n, cfg.MIN)
                cd == CondDropped(b, n, cfg.MIN)
                cc == CondChanged(b, n, cfg.TH, cfg.MIN)
            IN  /\ Len(RecordsFor(v, p)) <= 1
                /\ Outcome(v, p) = IF cn THEN "NEU"
                                   ELSE IF cd THEN "WEG"
                                   ELSE IF cc THEN "AENDERUNG"
                                   ELSE "none"
                /\ cfg.MIN > 0 => (~(cn /\ cd) /\ ~(cn /\ cc) /\ ~(cd /\ cc))
                /\ (b = cfg.MIN /\ b > 0 /\ n = 0) => Outcome(v, p) = "WEG"
                /\ (b = cfg.MIN /\ b > 0 /\ n > 0 /\ Abs(n - b) * 100 >= cfg.TH * b)
                       => Outcome(v, p) = "AENDERUNG"
                /\ (cfg.MIN <= 0 /\ b = 0 /\ n = 0) => (cn /\ cd /\ Outcome(v, p) = "NEU")

\* A cell with base = new = 0 under MIN = 0 has been recorded as NEW.
C1_Witness ==
    /\ AlarmsDone
    /\ cfg.MIN = 0
    /\ \E i \in 1..Len(alarms) :
          alarms[i].typ = "NEU" /\ alarms[i].basis = 0 /\ alarms[i].neu = 0

\* pct is the number q.
PctIs(pct, q) == pct.den > 0 /\ pct.num = q * pct.den

\* pct is (new - base) / base * 100.
PctOfChange(pct, base, new) ==
    pct.den > 0 /\ pct.num * base = (new - base) * 100 * pct.den

IsNewRecord(a, b, n) ==
    a.typ = "NEU" /\ a.basis = b /\ a.neu = n /\ a.delta = n /\ a.pct = NoPct

IsDroppedRecord(a, b, n) ==
    a.typ = "WEG" /\ a.basis = b /\ a.neu = n /\ a.delta = -b /\ PctIs(a.pct, -100)

IsChangedRecord(a, b, n) ==
    a.typ = "AENDERUNG" /\ a.basis = b /\ a.neu = n /\ a.delta = n - b
    /\ PctOfChange(a.pct, b, n)

\* Every alarm record belongs to a vendor and a pair of consecutive years.
NoStrayRecord ==
    \A i \in 1..Len(alarms) :
        alarms[i].anbieter \in DatasetVendors /\ alarms[i].periode \in ConsecutiveYears

\* C2 as stated: per vendor and consecutive year pair at most one record,
\* NEW when base = 0 and new >= MIN, DROPPED when base >= MIN and new = 0,
\* CHANGED when base >= MIN, new > 0 and |percent| >= TH, none otherwise.
C2_Original ==
    (AlarmsDone /\ cfg.MIN >= 0) =>
        \A v \in DatasetVendors, p \in ConsecutiveYears :
            LET b    == RowTotal(v, p[1])
                n    == RowTotal(v, p[2])
                recs == RecordsFor(v, p)
                cn   == CondNew(b, n, cfg.MIN)
                cd   == CondDropped(b, n, cfg.MIN)
                cc   == CondChanged(b, n, cfg.TH, cfg.MIN)
            IN  /\ Len(recs) <= 1
                /\ cn => (Len(recs) = 1 /\ IsNewRecord(recs[1], b, n))
                /\ cd => (Len(recs) = 1 /\ IsDroppedRecord(recs[1], b, n))
                /\ cc => (Len(recs) = 1 /\ IsChangedRecord(recs[1], b, n))
                /\ ~(cn \/ cd \/ cc) => recs = <<>>

\* C2 (amended): per vendor and consecutive pair of the dataset's years (a
\* year without transactions reads as 0) the alarm list holds at most one
\* record, decided by the first test that holds in the order NEW (delta = new,
\* percent null), DROPPED (delta = -base, percent -100), CHANGED (delta =
\* new - base, percent = (new - base) / base * 100), and none otherwise; the
\* list holds no other record; base 1000, new 1300, TH 10, MIN 100 gives
\* CHANGED with delta 300 and percent 30.
C2_AlarmRecords ==
    AlarmsDone =>
        /\ NoStrayRecord
        /\ \A v \in DatasetVendors, p \in ConsecutiveYears :
            LET b    == RowTotal(v, p[1])
                n    == RowTotal(v, p[2])
                recs == RecordsFor(v, p)
                cn   == CondNew(b, n, cfg.MIN)
                cd   == CondDropped(b, n, cfg.MIN)
                cc   == CondChanged(b, n, cfg.TH, cfg.MIN)
            IN  /\ Len(recs) <= 1
                /\ cn => (Len(recs) = 1 /\ IsNewRecord(recs[1], b, n))
                /\ (~cn /\ cd) => (Len(recs) = 1 /\ IsDroppedRecord(recs[1], b, n))
                /\ (~cn /\ ~cd /\ cc) => (Len(recs) = 1 /\ IsChangedRecord(recs[1], b, n))
                /\ ~(cn \/ cd \/ cc) => recs = <<>>
                /\ (b = 1000 /\ n = 1300 /\ cfg.TH = 10 /\ cfg.MIN = 100) =>
                     (Len(recs) = 1 /\ recs[1].typ = "AENDERUNG"
                      /\ recs[1].delta = 300 /\ PctIs(recs[1].pct, 30))

\* The documented scenario has produced its CHANGED record.
C2_Witness ==
    /\ AlarmsDone
    /\ cfg.TH = 10 /\ cfg.MIN = 100
    /\ \E i \in 1..Len(alarms) :
          /\ alarms[i].typ = "AENDERUNG"
          /\ alarms[i].basis = 1000 /\ alarms[i].neu = 1300
          /\ alarms[i].delta = 300 /\ PctIs(alarms[i].pct, 30)

-----------------------------------------------------------------------------
(* Properties of the savings estimator *)

Categories ==
    {"Leasing/Fahrzeug", "Marketing/Werbung", "Energie", "Software/IT",
     "Gebuehren/Pflicht", "Beratung/Dienstleistung", "Sonstiges"}

\* rate_max * 100: the largest rate of the table, in percent.
RateMaxPct == CHOOSE m \in {SavingRatePct(c) : c \in Categories} :
                  \A c \in Categories : SavingRatePct(c) <= m

SavingsDone == savings # <<>>

\* C4 as stated: potential_pct lies in [0, rate_max * 100] and is 0 when
\* relevant_cost is 0, the rounding of each vendor's potential notwithstanding.
C4_Original ==
    SavingsDone =>
        /\ savings.potential_pct.den > 0
        /\ savings.potential_pct.num >= 0
        /\ savings.potential_pct.num <= RateMaxPct * savings.potential_pct.den
        /\ savings.relevant_cost = 0 => savings.potential_pct.num = 0

\* C4 (amended): potential_pct is a defined number, at least 0, and 0 when
\* relevant_cost is 0; each vendor's potential is within half a cent of
\* sum_net * rate, so potential_total <= rate_max * relevant_cost + half a
\* cent per latest-year vendor, and potential_pct stays within
\* [0, rate_max * 100] whenever no vendor's potential is rounded up.
C4_PotentialBound ==
    SavingsDone =>
        LET vs     == DOMAIN savings.rows
            exact  == [v \in vs |-> savings.rows[v].sum_net * savings.rows[v].rate]
            nUp    == Cardinality({v \in vs : 100 * savings.rows[v].potential_eur > exact[v]})
        IN  /\ savings.potential_pct.den > 0
            /\ savings.potential_pct.num >= 0
            /\ savings.relevant_cost = 0 => savings.potential_pct.num = 0
            /\ \A v \in vs :
                 /\ savings.rows[v].rate <= RateMaxPct
                 /\ 100 * savings.rows[v].potential_eur <= exact[v] + 50
                 /\ 100 * savings.rows[v].potential_eur >= exact[v] - 50
            /\ 100 * savings.potential_total
                 <= RateMaxPct * savings.relevant_cost + 50 * Cardinality(vs)
            /\ nUp = 0 =>
                 savings.potential_pct.num <= RateMaxPct * savings.potential_pct.den

\* A latest-year total of 3 cents at 20 percent: the potential is rounded up
\* to 1 cent and potential_pct is above rate_max * 100.
C4_Witness ==
    /\ SavingsDone
    /\ savings.relevant_cost = 3
    /\ savings.potential_total = 1
    /\ savings.potential_pct.num > RateMaxPct * savings.potential_pct.den

-----------------------------------------------------------------------------
(* Properties of the report run *)

OutputProduced == ui \cap Tables # {} \/ excel # <<>> \/ pdf # <<>>

\* C6: a run completes or halts with no partial output.  A run that stopped
\* (file missing or unreadable, required column unresolved, no admitted row,
\* no years) has produced no table and no export and takes no further step;
\* a run in one of those conditions goes nowhere but to the stop; and an
\* output exists only after filter, aggregation, profile, alarm and savings
\* stages have all finished.
C6_NoPartialOutput ==
    /\ pc = "stopped" => (~OutputProduced /\ ~ENABLED Next)
    /\ (col_map # <<>> /\ Missing(col_map) # <<>>) => pc = "stopped"
    /\ (d # <<>> /\ d.rows = <<>>) => pc = "stopped"
    /\ (vendor_year # {} /\ years = <<>>) => pc = "stopped"
    /\ OutputProduced =>
         /\ pc \in {"excel", "pdf", "done"}
         /\ df # <<>>
         /\ col_map # <<>> /\ Missing(col_map) = <<>>
         /\ d # <<>> /\ d.rows # <<>>
         /\ vendor_year # {} /\ years # <<>>
         /\ recurring # <<>>
         /\ AlarmsDone
         /\ SavingsDone
         /\ ui \cap Tables \in {{"trend", "savings"}, Tables}

\* A run has stopped at the schema guard, nothing computed and nothing shown.
C6_Witness ==
    /\ pc = "stopped"
    /\ col_map # <<>> /\ Missing(col_map) # <<>>
    /\ d = <<>> /\ ~OutputProduced

\* A raw row that parses and passes the filter.
RawAdmissible(r) ==
    /\ r.date.ok
    /\ cfg.year_min <= YearOf(r.date.v) /\ YearOf(r.date.v) <= cfg.year_max
    /\ r.amount.ok /\ r.amount.v > 0

\* C7: malformed cells never abort a run.  A file whose required columns
\* resolve and that holds at least one row with a parseable in-range date and
\* a positive amount does not stop, whatever its other rows hold, and the
\* admitted rows are exactly the rows with a year in range and amount > 0.
C7_MalformedCellsTolerated ==
    /\ (/\ df # <<>>
        /\ Missing(auto_map_columns(df.columns)) = <<>>
        /\ \E i \in 1..Len(df.rows) : RawAdmissible(df.rows[i]))
       => pc # "stopped"
    /\ d # <<>> =>
         Len(d.rows) = Cardinality({i \in 1..Len(df.rows) : RawAdmissible(df.rows[i])})

\* C8: for every vendor of the aggregated table years_nonzero is the number
\* of dataset years with a positive pivot value, which is the number of
\* distinct years with an admitted transaction of the vendor; it is at least
\* 1 and at most the number of distinct years of the filtered dataset.
C8_YearsNonzero ==
    recurring # <<>> =>
        /\ DOMAIN recurring = DatasetVendors
        /\ \A v \in DOMAIN recurring :
            LET yn == recurring[v].years_nonzero
            IN  /\ yn = Cardinality({y \in DatasetYears : RowTotal(v, y) > 0})
                /\ yn = Cardinality({d.rows[i].year :
                                        i \in {j \in 1..Len(d.rows) : d.rows[j].vendor_norm = v}})
                /\ yn >= 1
                /\ yn <= Cardinality(DatasetYears)

\* A vendor active in one year of a dataset that spans three.
C8_Witness ==
    /\ recurring # <<>>
    /\ Cardinality(DatasetYears) = 3
    /\ \E v \in DOMAIN recurring : recurring[v].years_nonzero = 1

\* C10 as stated: the spreadsheet of every completed run holds the three
\* sheets, also when no alarm was raised, and the summary's alarm count is
\* the number of alarm records.
C10_Original ==
    pc = "done" =>
        /\ Range(excel) = {"trends_fixkosten", "alarme", "einsparpotenzial"}
        /\ Len(excel) = 3
        /\ pdf[1].alarme = Len(alarms)

\* C10 (amended): the spreadsheet of every completed run holds the trend
\* sheet and the savings sheet, and the alarm sheet exactly when at least one
\* alarm was raised (with no alarm there is no alarm sheet); the summary's
\* alarm count is the number of alarm records.
C10_ExportSheets ==
    pc = "done" =>
        /\ excel = IF alarms # <<>>
                   THEN <<"trends_fixkosten", "alarme", "einsparpotenzial">>
                   ELSE <<"trends_fixkosten", "einsparpotenzial">>
        /\ pdf[1].alarme = Len(alarms)

\* A run without alarms has completed with two sheets.
C10_Witness ==
    /\ pc = "done"
    /\ alarms = <<>>
    /\ excel = <<"trends_fixkosten", "einsparpotenzial">>
    /\ pdf[1].alarme = 0

====
